---- MODULE Spec2Model ----
(***************************************************************************)
(* Contract-analysis back end: the analysis orchestration of               *)
(* app/services/ai_advisor.py (analyze_contract), its single-category      *)
(* sibling app/services/law_advisor.py (analyze_labor_contract), the HTTP  *)
(* handler app/routers/general.py (_process_analysis) that saves the       *)
(* upload, calls the orchestrator, applies the Gatekeeper and persists     *)
(* the result, and the read flags of app/routers/notifications.py.         *)
(*                                                                         *)
(* Texts are sequences of tokens.  A token is one character that the       *)
(* program's regular expressions, its JSON parser or its substring test    *)
(* distinguish (brace, bracket, colon, comma, quote, blank, newline), one  *)
(* of the markers the regular expressions look for (the three-backtick     *)
(* fence, the word json, the two lenticular citation brackets U+3010 and   *)
(* U+3011), or a run of other characters (a word).  The Korean messages of *)
(* the source are written as ASCII words.                                  *)
(***************************************************************************)
EXTENDS Integers, Sequences, FiniteSets, TLC

(***************************************************************************)
(* Tokens                                                                  *)
(***************************************************************************)
Q   == "\""
SP  == " "
NL  == "\n"
BT  == "<fence>"
LBr == "U+3010"
RBr == "U+3011"

\* the blank class of the regular expressions; what str.strip() removes
IsSpace(c) == c \in {SP, NL}

RECURSIVE FirstNonSpace(_, _)
\* index of the first non-blank token of s at or after i, Len(s)+1 when none
FirstNonSpace(s, i) ==
    IF i > Len(s) THEN Len(s) + 1
    ELSE IF IsSpace(s[i]) THEN FirstNonSpace(s, i + 1)
    ELSE i

RECURSIVE LastNonSpace(_, _)
\* index of the last non-blank token of s at or before i, 0 when none
LastNonSpace(s, i) ==
    IF i < 1 THEN 0
    ELSE IF IsSpace(s[i]) THEN LastNonSpace(s, i - 1)
    ELSE i

\* raw_text.strip()
strip(s) ==
    LET a == FirstNonSpace(s, 1)
        b == LastNonSpace(s, Len(s))
    IN  IF a > b THEN <<>> ELSE SubSeq(s, a, b)

(***************************************************************************)
(* Step 1: the fence substitution, multi-line mode                         *)
(***************************************************************************)
\* ^ under re.MULTILINE: the start of the text or just after a newline
AtLineStart(s, i) == i = 1 \/ s[i - 1] = NL

\* $ under re.MULTILINE: the end of the text or just before a newline
AtLineEnd(s, i) == i > Len(s) \/ s[i] = NL

\* end (exclusive) of a match of the opening-fence branch (line start,
\* fence, json, blanks) starting at i; i when none
OpenFenceEnd(s, i) ==
    IF /\ AtLineStart(s, i)
       /\ i + 1 <= Len(s)
       /\ s[i] = BT
       /\ s[i + 1] = "json"
    THEN FirstNonSpace(s, i + 2)
    ELSE i

\* a closing-fence branch without its line-end anchor
CloseFenceAnywhere(s, i) ==
    LET j == FirstNonSpace(s, i)
    IN  IF j <= Len(s) /\ s[j] = BT THEN j + 1 ELSE i

\* end (exclusive) of a match of the closing-fence branch (blanks, fence,
\* line end) starting at i; i when none
CloseFenceEnd(s, i) ==
    LET j == FirstNonSpace(s, i)
    IN  IF j <= Len(s) /\ s[j] = BT /\ AtLineEnd(s, j + 1)
        THEN j + 1
        ELSE i

\* the alternation tries its first branch, then its second
FenceMatchEnd(s, i) ==
    IF OpenFenceEnd(s, i) > i THEN OpenFenceEnd(s, i) ELSE CloseFenceEnd(s, i)

RECURSIVE FenceSubFrom(_, _)
\* re.sub scanning s from i: a match is dropped, any other token is copied
FenceSubFrom(s, i) ==
    IF i > Len(s) THEN <<>>
    ELSE LET e == FenceMatchEnd(s, i)
         IN  IF e > i THEN FenceSubFrom(s, e)
             ELSE <<s[i]>> \o FenceSubFrom(s, i + 1)

StripFence(raw) == FenceSubFrom(strip(raw), 1)

(***************************************************************************)
(* Step 2: the citation substitution, bracket to bracket, non-greedy       *)
(***************************************************************************)
RECURSIVE CiteClose(_, _)
\* index of the first closing bracket at or after i that no newline
\* precedes ("." does not match a newline), 0 when none
CiteClose(s, i) ==
    IF i > Len(s) THEN 0
    ELSE IF s[i] = RBr THEN i
    ELSE IF s[i] = NL THEN 0
    ELSE CiteClose(s, i + 1)

RECURSIVE CiteSubFrom(_, _)
CiteSubFrom(s, i) ==
    IF i > Len(s) THEN <<>>
    ELSE IF s[i] = LBr /\ CiteClose(s, i + 1) > 0
         THEN CiteSubFrom(s, CiteClose(s, i + 1) + 1)
         ELSE <<s[i]>> \o CiteSubFrom(s, i + 1)

StripCitations(s) == CiteSubFrom(s, 1)

(***************************************************************************)
(* Step 3: the brace-span search, greedy, dot matching newlines            *)
(***************************************************************************)
RECURSIVE FirstIndexOf(_, _, _)
\* index of the first c in s at or after i, 0 when none
FirstIndexOf(s, c, i) ==
    IF i > Len(s) THEN 0
    ELSE IF s[i] = c THEN i
    ELSE FirstIndexOf(s, c, i + 1)

RECURSIVE LastIndexOf(_, _, _)
\* index of the last c in s at or before i, 0 when none
LastIndexOf(s, c, i) ==
    IF i < 1 THEN 0
    ELSE IF s[i] = c THEN i
    ELSE LastIndexOf(s, c, i - 1)

\* a non-greedy search: from the first opening brace to the first closing
\* brace after it
ExtractShortestBraceSpan(s) ==
    LET a == FirstIndexOf(s, "{", 1)
        b == IF a > 0 THEN FirstIndexOf(s, "}", a + 1) ELSE 0
    IN  IF a > 0 /\ b > a THEN SubSeq(s, a, b) ELSE s

ExtractBraceSpan(s) ==
    LET a == FirstIndexOf(s, "{", 1)
        b == LastIndexOf(s, "}", Len(s))
    IN  IF a > 0 /\ b > a THEN SubSeq(s, a, b) ELSE s

\* the post-processing of analyze_contract: json_str is assigned three
\* times, each step working on the value the step before it produced
sanitize(raw) ==
    CHOOSE json_str \in
        { ExtractBraceSpan(cited) :
            cited \in { StripCitations(fenced) : fenced \in {StripFence(raw)} } } : TRUE

\* the post-processing of analyze_labor_contract: the fence only
sanitize_labor(raw) == StripFence(raw)

(***************************************************************************)
(* json.loads over token texts.  A parsed value is tagged: an object is    *)
(* [t |-> "obj", m |-> function from member names to values], an array     *)
(* [t |-> "arr", items |-> sequence], a string [t |-> "str", s |-> its     *)
(* tokens], and true, false, null and the numbers [t |-> "lit", v |-> the  *)
(* token].                                                                 *)
(***************************************************************************)
JsonLiterals == {"true", "false", "null", "0", "1"}

NoValue   == [t |-> "none"]
ParseFail == [ok |-> FALSE, v |-> NoValue, i |-> 0]
JStr(toks) == [t |-> "str", s |-> toks]

RECURSIVE StrClose(_, _)
\* index of the quote that closes a string whose content starts at i; a raw
\* newline inside a string is an invalid control character; 0 when none
StrClose(s, i) ==
    IF i > Len(s) THEN 0
    ELSE IF s[i] = Q THEN i
    ELSE IF s[i] = NL THEN 0
    ELSE StrClose(s, i + 1)

\* a string starting with the quote at i
ParseString(s, i) ==
    LET j == StrClose(s, i + 1)
    IN  IF j = 0 THEN ParseFail
        ELSE [ok |-> TRUE, v |-> JStr(SubSeq(s, i + 1, j - 1)), i |-> j + 1]

RECURSIVE ParseValue(_, _)
RECURSIVE ParseMembers(_, _, _)
RECURSIVE ParseItems(_, _, _)

\* the members of an object from the member name at i on; m holds the
\* members read so far, a repeated name keeps its last value
ParseMembers(s, i, m) ==
    IF i > Len(s) \/ s[i] # Q THEN ParseFail
    ELSE LET k == ParseString(s, i)
             c == IF k.ok THEN FirstNonSpace(s, k.i) ELSE 0
         IN  IF ~k.ok \/ c > Len(s) \/ s[c] # ":" THEN ParseFail
             ELSE LET val == ParseValue(s, FirstNonSpace(s, c + 1))
                      e   == IF val.ok THEN FirstNonSpace(s, val.i) ELSE 0
                      m2  == (k.v.s :> val.v) @@ m
                  IN  IF ~val.ok \/ e > Len(s) THEN ParseFail
                      ELSE IF s[e] = "}"
                           THEN [ok |-> TRUE, v |-> [t |-> "obj", m |-> m2], i |-> e + 1]
                      ELSE IF s[e] = ","
                           THEN ParseMembers(s, FirstNonSpace(s, e + 1), m2)
                      ELSE ParseFail

\* the items of an array from the item at i on
ParseItems(s, i, items) ==
    LET val == ParseValue(s, i)
        e   == IF val.ok THEN FirstNonSpace(s, val.i) ELSE 0
        it2 == Append(items, val.v)
    IN  IF ~val.ok \/ e > Len(s) THEN ParseFail
        ELSE IF s[e] = "]"
             THEN [ok |-> TRUE, v |-> [t |-> "arr", items |-> it2], i |-> e + 1]
        ELSE IF s[e] = ","
             THEN ParseItems(s, FirstNonSpace(s, e + 1), it2)
        ELSE ParseFail

\* the value that starts at the non-blank token i
ParseValue(s, i) ==
    IF i > Len(s) THEN ParseFail
    ELSE IF s[i] = "{"
         THEN LET j == FirstNonSpace(s, i + 1)
              IN  IF j <= Len(s) /\ s[j] = "}"
                  THEN [ok |-> TRUE, v |-> [t |-> "obj", m |-> <<>>], i |-> j + 1]
                  ELSE ParseMembers(s, j, <<>>)
    ELSE IF s[i] = "["
         THEN LET j == FirstNonSpace(s, i + 1)
              IN  IF j <= Len(s) /\ s[j] = "]"
                  THEN [ok |-> TRUE, v |-> [t |-> "arr", items |-> <<>>], i |-> j + 1]
                  ELSE ParseItems(s, j, <<>>)
    ELSE IF s[i] = Q THEN ParseString(s, i)
    ELSE IF s[i] \in JsonLiterals
         THEN [ok |-> TRUE, v |-> [t |-> "lit", v |-> s[i]], i |-> i + 1]
    ELSE ParseFail

\* json.loads(text): ok is FALSE where the source gets a JSONDecodeError
json_loads(text) ==
    LET r == ParseValue(text, FirstNonSpace(text, 1))
    IN  IF r.ok /\ FirstNonSpace(text, r.i) > Len(text)
        THEN [ok |-> TRUE, v |-> r.v]
        ELSE [ok |-> FALSE, v |-> NoValue]

(***************************************************************************)
(* The substring test of the risk marker                                   *)
(***************************************************************************)
\* needle in hay
Contains(hay, needle) ==
    \E i \in 1..(Len(hay) - Len(needle) + 1) :
        SubSeq(hay, i, i + Len(needle) - 1) = needle

(***************************************************************************)
(* Configuration and message texts                                         *)
(***************************************************************************)
None == "None"            \* os.getenv of an unset variable; dict.get of a missing key
NoHandle == 0             \* user_file_obj = None, no thread yet

\* the keys of ASSISTANT_MAP
CategoryKeys == {"REAL_ESTATE", "WORK", "CONSUMER", "NDA", "GENERAL"}
\* a category string outside the table
UnknownCategory == "LEASE"
Categories == CategoryKeys \cup {UnknownCategory}

\* a test against None alone, which lets the empty string through
IsNotNone(x) == x # None

\* Python truthiness of an optional string
Truthy(x) == x # None /\ x # ""

\* run.status values create_and_poll returns with; the engine's run passes
\* through queued and in_progress first
TerminalStatuses == {"completed", "failed", "expired", "cancelled"}

\* '{"error": "Assistant ID not found. (Category: <category>)"}'
ErrNoAssistant(category) ==
    <<"{", Q, "error", Q, ":", SP, Q, "Assistant", SP, "ID", SP, "not", SP,
      "found.", SP, "(Category", ":", SP, category, ")", Q, "}">>

\* '{"error": "wrong category"}'
ErrBadCategory ==
    <<"{", Q, "error", Q, ":", SP, Q, "wrong", SP, "category", Q, "}">>

\* a failure payload that leaves the status out
ErrRunFailedNoStatus(status) ==
    <<"{", Q, "error", Q, ":", SP, Q, "AI", SP, "analysis", SP, "failed", Q, "}">>

\* f'{{"error": "AI analysis failed", "status": "{run.status}"}}'
ErrRunFailed(status) ==
    <<"{", Q, "error", Q, ":", SP, Q, "AI", SP, "analysis", SP, "failed", Q, ",",
      SP, Q, "status", Q, ":", SP, Q, status, Q, "}">>

\* f'{{"error": "internal server error", "details": "{str(e)}"}}'
ErrException(detail) ==
    <<"{", Q, "error", Q, ":", SP, Q, "internal", SP, "server", SP, "error", Q,
      ",", SP, Q, "details", Q, ":", SP, Q>> \o detail \o <<Q, "}">>

\* the three payloads of analyze_labor_contract
ErrLaborNoAssistant ==
    <<"{", Q, "error", Q, ":", SP, Q, "ASSISTANT_ID", SP, "is", SP, "not", SP,
      "set.", Q, "}">>
ErrLaborRunFailed(status) ==
    <<"{", Q, "error", Q, ":", SP, Q, "analysis", SP, "failed", Q, ",",
      SP, Q, "status", Q, ":", SP, Q, status, Q, "}">>
ErrLaborException(detail) ==
    <<"{", Q, "error", Q, ":", SP, Q, "error", SP, "occurred", Q,
      ",", SP, Q, "details", Q, ":", SP, Q>> \o detail \o <<Q, "}">>

\* str(e) of the exception each step can raise.  The engine's client puts
\* the body of an error response into the message; for a run requested
\* with an assistant id the engine does not know it reads
\*   Error code: 404 - {'error': {'message': "No assistant found ..."}}
\* a text that holds double quotes.
ExcNoFile    == <<"No", SP, "such", SP, "file">>
ExcUpload    == <<"upload", SP, "refused">>
ExcThread    == <<"thread", SP, "refused">>
ExcRun       == <<"Error", SP, "code", SP, "404", SP,
                 Q, "No", SP, "assistant", SP, "found", Q>>
ExcPoll      == <<"connection", SP, "lost">>
ExcMessages  == <<"messages", SP, "unavailable">>

\* the prompt of each category: the if/elif chain of analyze_contract; None
\* stands for its final else
InstructionsFor(category) ==
    IF category = "REAL_ESTATE" THEN <<"analyze", SP, "real-estate", SP, "contract">>
    ELSE IF category = "WORK" THEN <<"analyze", SP, "work", SP, "contract">>
    ELSE IF category = "CONSUMER" THEN <<"analyze", SP, "consumer", SP, "contract">>
    ELSE IF category = "NDA" THEN <<"analyze", SP, "NDA">>
    ELSE IF category = "GENERAL" THEN <<"analyze", SP, "document">>
    ELSE <<None>>

LaborInstructions == <<"analyze", SP, "labor", SP, "contract">>

(***************************************************************************)
(* The texts the engine may answer with                                    *)
(***************************************************************************)
JsonString(w) == <<Q, w, Q>>

\* {"risk_level":"HIGH","clauses":[]}
TextHighCompact ==
    <<"{">> \o JsonString("risk_level") \o <<":">> \o JsonString("HIGH") \o <<",">>
    \o JsonString("clauses") \o <<":", "[", "]", "}">>

\* {"risk_level": "HIGH", "clauses": []}
TextHighSpaced ==
    <<"{">> \o JsonString("risk_level") \o <<":", SP>> \o JsonString("HIGH")
    \o <<",", SP>> \o JsonString("clauses") \o <<":", SP, "[", "]", "}">>

\* {"summary": {"contract_type_detected": <detected>, "overall_comment": "X"}}
TextDetected(detected) ==
    <<"{">> \o JsonString("summary") \o <<":", SP, "{">>
    \o JsonString("contract_type_detected") \o <<":", SP>> \o JsonString(detected)
    \o <<",", SP>> \o JsonString("overall_comment") \o <<":", SP>> \o JsonString("X")
    \o <<"}", "}">>

\* {"summary": {"contract_type_detected": "NOT_A_CONTRACT"}}
TextNotContractBare ==
    <<"{">> \o JsonString("summary") \o <<":", SP, "{">>
    \o JsonString("contract_type_detected") \o <<":", SP>>
    \o JsonString("NOT_A_CONTRACT") \o <<"}", "}">>

\* {"summary": "fine"}: a summary that is no object
TextSummaryString ==
    <<"{">> \o JsonString("summary") \o <<":", SP>> \o JsonString("fine") \o <<"}">>

\* ["HIGH"]: JSON whose top level is no object
TextTopArray == <<"[">> \o JsonString("HIGH") \o <<"]">>

\* prose, no JSON at all
TextProse == <<"I", SP, "cannot", SP, "read", SP, "this", SP, "file.">>

\* the payload inside a json fence, with a citation after a value and prose
\* around it
Fenced(body) == <<BT, "json", NL>> \o body \o <<NL, BT>>
Cited(body)  ==
    <<"Result", ":", SP>> \o SubSeq(body, 1, Len(body) - 1)
    \o <<LBr, "4", ":", "0", "source", RBr, "}", NL, "Done.">>

Corpus ==
    { TextHighCompact, TextHighSpaced, TextDetected("NOT_A_CONTRACT"),
      TextDetected("EMPLOYMENT"), TextNotContractBare, TextSummaryString,
      TextTopArray, TextProse,
      Fenced(TextHighSpaced), Fenced(TextDetected("NOT_A_CONTRACT")),
      Cited(TextHighSpaced), Cited(TextNotContractBare) }

\* the replies used when several requests run at once
ConcCorpus == { TextHighSpaced, Fenced(TextDetected("NOT_A_CONTRACT")) }

(***************************************************************************)
(* Bounds                                                                  *)
(***************************************************************************)
NumReq     == 2     \* request slots
MaxFaults  == 2     \* exceptions the environment may raise while one request runs
ConcFaults == 1     \* the same, while several requests run at once
MaxLen     == 3     \* tokens of a generated fragment of reply text

Req == 1..NumReq

(***************************************************************************)
(* State                                                                   *)
(***************************************************************************)
VARIABLES
    ASSISTANT_MAP,  \* ai_advisor: category key -> assistant id, None or ""
    ASSISTANT_ID,   \* law_advisor: its one assistant id, None when unset
    req,            \* per request: entry point, category, filename, user
    pc,             \* per request: the step it is at
    loc,            \* per request: the local variables of the advisor call, the
                    \* exception it caught (exc), the value it returns (ret)
    tempFiles,      \* temp_files/: the paths that exist
    files,          \* engine: the ids of the stored files
    threads,        \* engine: thread id -> attachment, run, assistant, messages
    session,        \* per request: records added to the db session, uncommitted
    db,             \* committed records
    resp,           \* per request: the HTTP response
    log,            \* per request: the engine operations it invoked, in order
    engineTexts,    \* the replies the engine may give
    budget          \* exceptions the environment may still raise

vars == <<ASSISTANT_MAP, ASSISTANT_ID, req, pc, loc, tempFiles, files,
          threads, session, db, resp, log, engineTexts, budget>>

\* the process environment the two advisor modules read at import
Environments ==
    { [map |-> [k \in CategoryKeys |-> "asst_" \o k], labor |-> "asst_labor"],
      [map |-> [k \in CategoryKeys |->
                   IF k = "WORK" THEN None
                   ELSE IF k = "NDA" THEN "" ELSE "asst_" \o k],
       labor |-> None] }

\* a request: a POST handled by _process_analysis with a category
\* ("general"), or a call of analyze_contract ("direct") or of
\* analyze_labor_contract ("labor") by a caller outside these files, on a
\* path that may not exist
GeneralRequests ==
    [entry : {"general"}, category : Categories, filename : {"contract.pdf"},
     user : {"u1"}, present : {FALSE}]
DirectRequests ==
    [entry : {"direct"}, category : Categories, filename : {"contract.pdf"},
     user : {"u1"}, present : BOOLEAN]
LaborRequests ==
    [entry : {"labor"}, category : {"WORK"}, filename : {"contract.pdf"},
     user : {"u1"}, present : BOOLEAN]
NoRequest ==
    [entry |-> "none", category |-> "", filename |-> "", user |-> "", present |-> FALSE]

NoPath == <<"", 0, "">>
\* a temporary path without the uuid: category and file name only
TempPathWithoutUuid(r) == <<req[r].category, 0, req[r].filename>>

\* temp_dir / f"{category}_{uuid.uuid4()}_{file.filename}": the request
\* number stands for the fresh uuid
TempPath(r) == <<req[r].category, r, req[r].filename>>
\* the path a caller hands to analyze_contract or analyze_labor_contract
CallerPath(r) == <<req[r].entry, r, req[r].filename>>

InitLoc ==
    [file_path |-> NoPath, assistant_id |-> None, instructions |-> <<>>,
     user_file_obj |-> NoHandle, thread |-> NoHandle, status |-> "",
     exc |-> <<>>, ret |-> <<>>, returned |-> FALSE]

NoResponse == [code |-> 0, detail |-> NoValue, risk_count |-> 0]

InitWith(requests, environments, texts, b) ==
    /\ \E e \in environments :
          /\ ASSISTANT_MAP = e.map
          /\ ASSISTANT_ID = e.labor
    /\ req \in requests
    /\ pc = [r \in Req |->
               IF req[r].entry = "general" THEN "save"
               ELSE IF req[r].entry = "none" THEN "idle"
               ELSE "resolve"]
    /\ loc = [r \in Req |->
               IF req[r].entry \in {"direct", "labor"}
               THEN [InitLoc EXCEPT !.file_path = CallerPath(r)]
               ELSE InitLoc]
    /\ tempFiles = { CallerPath(r) : r \in { q \in Req : req[q].present } }
    /\ files = {}
    /\ threads = <<>>
    /\ session = [r \in Req |-> {}]
    /\ db = {}
    /\ resp = [r \in Req |-> NoResponse]
    /\ log = [r \in Req |-> <<>>]
    /\ engineTexts = texts
    /\ budget = b

\* one request, of any kind
SingleRequests ==
    { f \in [Req -> GeneralRequests \cup DirectRequests \cup LaborRequests
                     \cup {NoRequest}] :
        \A r \in Req : (f[r] = NoRequest) <=> (r # 1) }

Init == InitWith(SingleRequests, Environments, Corpus, MaxFaults)

(***************************************************************************)
(* analyze_contract and analyze_labor_contract                             *)
(***************************************************************************)
IsLabor(r) == req[r].entry = "labor"

\* where the caller continues once the advisor call has returned
AfterReturn(r) == IF req[r].entry = "general" THEN "gate" ELSE "done"

Logged(r, op, h, ok) == [log EXCEPT ![r] = Append(@, [op |-> op, h |-> h, ok |-> ok])]

\* the except clause: the call returns the error payload after the finally clause
Caught(r, detail) ==
    [loc EXCEPT ![r].exc = detail,
                ![r].ret = IF IsLabor(r) THEN ErrLaborException(detail)
                           ELSE ErrException(detail)]

\* The ids the engine gives a new file and a new thread are opaque and
\* unique; the program only stores them and hands them back.  The model
\* names the object after the request whose call created it.
NewFileId(r)   == r
NewThreadId(r) == r

\* lines 33-77 (law_advisor 20-21): the assistant id and the prompt
Resolve(r) ==
    /\ pc[r] = "resolve"
    /\ IF IsLabor(r)
       THEN IF ~Truthy(ASSISTANT_ID)
            THEN /\ loc' = [loc EXCEPT ![r].ret = ErrLaborNoAssistant,
                                       ![r].returned = TRUE]
                 /\ pc' = [pc EXCEPT ![r] = AfterReturn(r)]
            ELSE /\ loc' = [loc EXCEPT ![r].assistant_id = ASSISTANT_ID,
                                       ![r].instructions = LaborInstructions]
                 /\ pc' = [pc EXCEPT ![r] = "upload"]
       ELSE LET category == req[r].category
                assistant_id ==
                    IF category \in DOMAIN ASSISTANT_MAP
                    THEN ASSISTANT_MAP[category] ELSE None
            IN  IF ~Truthy(assistant_id)
                THEN /\ loc' = [loc EXCEPT ![r].ret = ErrNoAssistant(category),
                                           ![r].returned = TRUE]
                     /\ pc' = [pc EXCEPT ![r] = AfterReturn(r)]
                ELSE IF InstructionsFor(category) = <<None>>
                THEN /\ loc' = [loc EXCEPT ![r].ret = ErrBadCategory,
                                           ![r].returned = TRUE]
                     /\ pc' = [pc EXCEPT ![r] = AfterReturn(r)]
                ELSE /\ loc' = [loc EXCEPT ![r].assistant_id = assistant_id,
                                           ![r].instructions = InstructionsFor(category)]
                     /\ pc' = [pc EXCEPT ![r] = "upload"]
    /\ UNCHANGED <<ASSISTANT_MAP, ASSISTANT_ID, req, tempFiles, files,
                   threads, session, db, resp, log, engineTexts, budget>>

\* an upload step whose failure does not leave the try block
UploadContinuesAfterFailure(r) ==
    /\ pc[r] = "upload"
    /\ IF loc[r].file_path \notin tempFiles
       THEN /\ loc' = Caught(r, ExcNoFile)
            /\ UNCHANGED <<files, log, budget>>
       ELSE \/ /\ files' = files \cup {NewFileId(r)}
               /\ loc' = [loc EXCEPT ![r].user_file_obj = NewFileId(r)]
               /\ log' = Logged(r, "storeFile", NewFileId(r), TRUE)
               /\ UNCHANGED budget
            \/ /\ budget > 0
               /\ budget' = budget - 1
               /\ loc' = Caught(r, ExcUpload)
               /\ log' = Logged(r, "storeFile", NoHandle, FALSE)
               /\ UNCHANGED files
    /\ pc' = [pc EXCEPT ![r] = "thread"]
    /\ UNCHANGED <<ASSISTANT_MAP, ASSISTANT_ID, req, tempFiles, threads, session,
                   db, resp, engineTexts>>

\* lines 82-86: open the local file and store it on the engine
Upload(r) ==
    /\ pc[r] = "upload"
    /\ IF loc[r].file_path \notin tempFiles
       THEN \* open() raises before the engine is called
            /\ loc' = Caught(r, ExcNoFile)
            /\ pc' = [pc EXCEPT ![r] = "cleanup"]
            /\ UNCHANGED <<files, log, budget>>
       ELSE \/ /\ files' = files \cup {NewFileId(r)}
               /\ loc' = [loc EXCEPT ![r].user_file_obj = NewFileId(r)]
               /\ log' = Logged(r, "storeFile", NewFileId(r), TRUE)
               /\ pc' = [pc EXCEPT ![r] = "thread"]
               /\ UNCHANGED budget
            \/ /\ budget > 0
               /\ budget' = budget - 1
               /\ loc' = Caught(r, ExcUpload)
               /\ log' = Logged(r, "storeFile", NoHandle, FALSE)
               /\ pc' = [pc EXCEPT ![r] = "cleanup"]
               /\ UNCHANGED files
    /\ UNCHANGED <<ASSISTANT_MAP, ASSISTANT_ID, req, tempFiles, threads, session,
                   db, resp, engineTexts>>

\* a thread creation that is tried again after it raised
CreateThreadRetry(r) ==
    /\ pc[r] = "thread"
    /\ \/ /\ threads' = (NewThreadId(r) :>
                             [attachment |-> loc[r].user_file_obj,
                              run |-> "none", assistant |-> None,
                              messages |-> <<loc[r].instructions>>]) @@ threads
          /\ loc' = [loc EXCEPT ![r].thread = NewThreadId(r)]
          /\ log' = Logged(r, "createJob", NewThreadId(r), TRUE)
          /\ pc' = [pc EXCEPT ![r] = "run"]
          /\ UNCHANGED budget
       \/ /\ budget > 0
          /\ budget' = budget - 1
          /\ log' = Logged(r, "createJob", NoHandle, FALSE)
          /\ UNCHANGED <<threads, loc, pc>>
    /\ UNCHANGED <<ASSISTANT_MAP, ASSISTANT_ID, req, tempFiles, files,
                   session, db, resp, engineTexts>>

\* lines 89-102: the thread with the prompt and the attached file
CreateThread(r) ==
    /\ pc[r] = "thread"
    /\ \/ /\ threads' = (NewThreadId(r) :>
                             [attachment |-> loc[r].user_file_obj,
                              run |-> "none", assistant |-> None,
                              messages |-> <<loc[r].instructions>>]) @@ threads
          /\ loc' = [loc EXCEPT ![r].thread = NewThreadId(r)]
          /\ log' = Logged(r, "createJob", NewThreadId(r), TRUE)
          /\ pc' = [pc EXCEPT ![r] = "run"]
          /\ UNCHANGED budget
       \/ /\ budget > 0
          /\ budget' = budget - 1
          /\ loc' = Caught(r, ExcThread)
          /\ log' = Logged(r, "createJob", NoHandle, FALSE)
          /\ pc' = [pc EXCEPT ![r] = "cleanup"]
          /\ UNCHANGED threads
    /\ UNCHANGED <<ASSISTANT_MAP, ASSISTANT_ID, req, tempFiles, files,
                   session, db, resp, engineTexts>>

\* lines 105-108, create_and_poll: the run is created on the thread
RunCreate(r) ==
    /\ pc[r] = "run"
    /\ \/ /\ threads' = [threads EXCEPT ![loc[r].thread].run = "queued",
                                        ![loc[r].thread].assistant = loc[r].assistant_id]
          /\ log' = Logged(r, "run", loc[r].thread, TRUE)
          /\ pc' = [pc EXCEPT ![r] = "poll"]
          /\ UNCHANGED <<loc, budget>>
       \/ /\ budget > 0
          /\ budget' = budget - 1
          /\ loc' = Caught(r, ExcRun)
          /\ log' = Logged(r, "run", loc[r].thread, FALSE)
          /\ pc' = [pc EXCEPT ![r] = "cleanup"]
          /\ UNCHANGED threads
    /\ UNCHANGED <<ASSISTANT_MAP, ASSISTANT_ID, req, tempFiles, files,
                   session, db, resp, engineTexts>>

\* the engine works on the run of thread t: queued, in_progress, then a
\* terminal status; a completed run leaves its reply as the newest message
EngineProgress(t) ==
    /\ t \in DOMAIN threads
    /\ \/ /\ threads[t].run = "queued"
          /\ threads' = [threads EXCEPT ![t].run = "in_progress"]
       \/ /\ threads[t].run = "in_progress"
          /\ \E text \in engineTexts :
                threads' = [threads EXCEPT ![t].run = "completed",
                                           ![t].messages = <<text>> \o @]
       \/ /\ threads[t].run = "in_progress"
          /\ \E status \in TerminalStatuses \ {"completed"} :
                threads' = [threads EXCEPT ![t].run = status]
    /\ UNCHANGED <<ASSISTANT_MAP, ASSISTANT_ID, req, pc, loc, tempFiles, files,
                   session, db, resp, log, engineTexts, budget>>

\* a poll that returns only once the run is completed
PollReturnWaitsForCompleted(r) ==
    /\ pc[r] = "poll"
    /\ \/ /\ threads[loc[r].thread].run = "completed"
          /\ loc' = [loc EXCEPT ![r].status = "completed"]
          /\ pc' = [pc EXCEPT ![r] = "fetch"]
          /\ log' = Logged(r, "poll", loc[r].thread, TRUE)
          /\ UNCHANGED budget
       \/ /\ budget > 0
          /\ budget' = budget - 1
          /\ loc' = Caught(r, ExcPoll)
          /\ log' = Logged(r, "poll", loc[r].thread, FALSE)
          /\ pc' = [pc EXCEPT ![r] = "cleanup"]
    /\ UNCHANGED <<ASSISTANT_MAP, ASSISTANT_ID, req, tempFiles, files,
                   threads, session, db, resp, engineTexts>>

\* a status branch that reads the messages whatever the terminal status
PollReturnAlwaysFetch(r) ==
    /\ pc[r] = "poll"
    /\ \/ /\ threads[loc[r].thread].run \in TerminalStatuses
          /\ loc' = [loc EXCEPT ![r].status = threads[loc[r].thread].run]
          /\ pc' = [pc EXCEPT ![r] = "fetch"]
          /\ log' = Logged(r, "poll", loc[r].thread, TRUE)
          /\ UNCHANGED budget
       \/ /\ budget > 0
          /\ budget' = budget - 1
          /\ loc' = Caught(r, ExcPoll)
          /\ log' = Logged(r, "poll", loc[r].thread, FALSE)
          /\ pc' = [pc EXCEPT ![r] = "cleanup"]
    /\ UNCHANGED <<ASSISTANT_MAP, ASSISTANT_ID, req, tempFiles, files,
                   threads, session, db, resp, engineTexts>>

\* lines 105-132, create_and_poll returns: with the terminal status, and
\* the else branch of "if run.status == 'completed'" builds the payload
PollReturn(r) ==
    /\ pc[r] = "poll"
    /\ \/ /\ threads[loc[r].thread].run \in TerminalStatuses
          /\ LET status == threads[loc[r].thread].run
             IN  IF status = "completed"
                 THEN /\ loc' = [loc EXCEPT ![r].status = status]
                      /\ pc' = [pc EXCEPT ![r] = "fetch"]
                 ELSE /\ loc' = [loc EXCEPT
                            ![r].status = status,
                            ![r].ret = IF IsLabor(r) THEN ErrLaborRunFailed(status)
                                       ELSE ErrRunFailed(status)]
                      /\ pc' = [pc EXCEPT ![r] = "cleanup"]
          /\ log' = Logged(r, "poll", loc[r].thread, TRUE)
          /\ UNCHANGED budget
       \/ /\ budget > 0
          /\ budget' = budget - 1
          /\ loc' = Caught(r, ExcPoll)
          /\ log' = Logged(r, "poll", loc[r].thread, FALSE)
          /\ pc' = [pc EXCEPT ![r] = "cleanup"]
    /\ UNCHANGED <<ASSISTANT_MAP, ASSISTANT_ID, req, tempFiles, files,
                   threads, session, db, resp, engineTexts>>

\* a thread handle kept in one place for all calls: the first thread the
\* engine holds
SharedThread(r) == CHOOSE t \in DOMAIN threads : \A u \in DOMAIN threads : t <= u

\* line 112: messages.list(thread_id=thread.id), the thread of this call
ResponseThread(r) == loc[r].thread

\* lines 112-128 (law_advisor 57-63): the newest message of the thread,
\* post-processed
FetchResult(r) ==
    /\ pc[r] = "fetch"
    /\ \/ /\ LET raw_text == Head(threads[ResponseThread(r)].messages)
             IN  loc' = [loc EXCEPT ![r].ret =
                            IF IsLabor(r) THEN sanitize_labor(raw_text)
                            ELSE sanitize(raw_text)]
          /\ log' = Logged(r, "fetch", loc[r].thread, TRUE)
          /\ UNCHANGED budget
       \/ /\ budget > 0
          /\ budget' = budget - 1
          /\ loc' = Caught(r, ExcMessages)
          /\ log' = Logged(r, "fetch", loc[r].thread, FALSE)
    /\ pc' = [pc EXCEPT ![r] = "cleanup"]
    /\ UNCHANGED <<ASSISTANT_MAP, ASSISTANT_ID, req, tempFiles, files,
                   threads, session, db, resp, engineTexts>>

\* a finally clause that cleans up on the success path only
HasUploadedAndCompleted(r) ==
    loc[r].user_file_obj # NoHandle /\ loc[r].status = "completed"

\* line 140 (law_advisor 72): if user_file_obj
HasUploaded(r) == loc[r].user_file_obj # NoHandle

\* a finally clause that reports the error of the deletion as the result
CleanupReportsDeleteError(r) ==
    /\ pc[r] = "cleanup"
    /\ \/ /\ ~HasUploaded(r)
          /\ loc' = [loc EXCEPT ![r].returned = TRUE]
          /\ UNCHANGED <<files, log, budget>>
       \/ /\ HasUploaded(r)
          /\ files' = files \ {loc[r].user_file_obj}
          /\ log' = Logged(r, "deleteFile", loc[r].user_file_obj, TRUE)
          /\ loc' = [loc EXCEPT ![r].returned = TRUE]
          /\ UNCHANGED budget
       \/ /\ HasUploaded(r)
          /\ budget > 0
          /\ budget' = budget - 1
          /\ log' = Logged(r, "deleteFile", loc[r].user_file_obj, FALSE)
          /\ loc' = [loc EXCEPT ![r].returned = TRUE,
                                ![r].ret = ErrException(<<"delete", SP, "refused">>)]
          /\ UNCHANGED files
    /\ pc' = [pc EXCEPT ![r] = AfterReturn(r)]
    /\ UNCHANGED <<ASSISTANT_MAP, ASSISTANT_ID, req, tempFiles,
                   threads, session, db, resp, engineTexts>>

\* lines 138-144 (law_advisor 70-76), the finally clause: delete the stored
\* file when there is one, swallow whatever the deletion raises; then the
\* call returns loc[r].ret
Cleanup(r) ==
    /\ pc[r] = "cleanup"
    /\ \/ /\ ~HasUploaded(r)
          /\ UNCHANGED <<files, log, budget>>
       \/ /\ HasUploaded(r)
          /\ files' = files \ {loc[r].user_file_obj}
          /\ log' = Logged(r, "deleteFile", loc[r].user_file_obj, TRUE)
          /\ UNCHANGED budget
       \/ /\ HasUploaded(r)
          /\ budget > 0
          /\ budget' = budget - 1
          /\ log' = Logged(r, "deleteFile", loc[r].user_file_obj, FALSE)
          /\ UNCHANGED files
    /\ loc' = [loc EXCEPT ![r].returned = TRUE]
    /\ pc' = [pc EXCEPT ![r] = AfterReturn(r)]
    /\ UNCHANGED <<ASSISTANT_MAP, ASSISTANT_ID, req, tempFiles,
                   threads, session, db, resp, engineTexts>>

(***************************************************************************)
(* _process_analysis                                                       *)
(***************************************************************************)
ExcDisk      == <<"disk", SP, "full">>
ExcAttribute == <<"object", SP, "has", SP, "no", SP, "attribute", SP, "get">>
ExcDatabase  == <<"database", SP, "error">>

\* the default detail of the Gatekeeper's rejection
DefaultRejectMessage ==
    JStr(<<"not", SP, "a", SP, "valid", SP, "contract", SP, "file.">>)

\* HTTPException(status_code=500, detail=f"{category} analysis failed: {str(e)}")
ServerError(category, exc) ==
    [code |-> 500,
     detail |-> JStr(<<category, SP, "analysis", SP, "failed", ":", SP>> \o exc),
     risk_count |-> 0]

EmptyObj == [t |-> "obj", m |-> <<>>]

\* dict.get(key, default) on a parsed object
DictGet(obj, key, default) ==
    IF <<key>> \in DOMAIN obj.m THEN obj.m[<<key>>] ELSE default

\* a Gatekeeper that looks for overall_comment at the top level of the
\* result instead of inside its summary
GatekeeperTopLevelComment(ai_result_json) ==
    LET parsed == json_loads(ai_result_json)
    IN  IF ~parsed.ok THEN [k |-> "pass", detail |-> NoValue]
        ELSE IF parsed.v.t # "obj" THEN [k |-> "error", detail |-> NoValue]
        ELSE LET summary == DictGet(parsed.v, "summary", EmptyObj)
             IN  IF summary.t # "obj" THEN [k |-> "error", detail |-> NoValue]
                 ELSE LET contract_type ==
                              DictGet(summary, "contract_type_detected", JStr(<<>>))
                      IN  IF /\ contract_type.t = "str"
                             /\ contract_type.s = <<"NOT_A_CONTRACT">>
                          THEN [k |-> "reject",
                                detail |-> DictGet(parsed.v, "overall_comment",
                                                   DefaultRejectMessage)]
                          ELSE [k |-> "pass", detail |-> NoValue]

\* a Gatekeeper that inspects the payload shape: an object with an error
\* member is rejected like the sentinel
GatekeeperRejectsErrors(ai_result_json) ==
    LET parsed == json_loads(ai_result_json)
    IN  IF ~parsed.ok THEN [k |-> "pass", detail |-> NoValue]
        ELSE IF parsed.v.t # "obj" THEN [k |-> "error", detail |-> NoValue]
        ELSE IF <<"error">> \in DOMAIN parsed.v.m
        THEN [k |-> "reject", detail |-> parsed.v.m[<<"error">>]]
        ELSE LET summary == DictGet(parsed.v, "summary", EmptyObj)
             IN  IF summary.t # "obj" THEN [k |-> "error", detail |-> NoValue]
                 ELSE LET contract_type ==
                              DictGet(summary, "contract_type_detected", JStr(<<>>))
                      IN  IF /\ contract_type.t = "str"
                             /\ contract_type.s = <<"NOT_A_CONTRACT">>
                          THEN [k |-> "reject",
                                detail |-> DictGet(summary, "overall_comment",
                                                   DefaultRejectMessage)]
                          ELSE [k |-> "pass", detail |-> NoValue]

\* lines 80-90: "pass" (go on to persistence), "reject" (HTTP 400 with the
\* detail) or "error" (.get on a value that is no dict: AttributeError)
GatekeeperDecision(ai_result_json) ==
    LET parsed == json_loads(ai_result_json)
    IN  IF ~parsed.ok THEN [k |-> "pass", detail |-> NoValue]
        ELSE IF parsed.v.t # "obj" THEN [k |-> "error", detail |-> NoValue]
        ELSE LET summary == DictGet(parsed.v, "summary", EmptyObj)
             IN  IF summary.t # "obj" THEN [k |-> "error", detail |-> NoValue]
                 ELSE LET contract_type ==
                              DictGet(summary, "contract_type_detected", JStr(<<>>))
                      IN  IF /\ contract_type.t = "str"
                             /\ contract_type.s = <<"NOT_A_CONTRACT">>
                          THEN [k |-> "reject",
                                detail |-> DictGet(summary, "overall_comment",
                                                   DefaultRejectMessage)]
                          ELSE [k |-> "pass", detail |-> NoValue]

\* lines 93-107: report title and summary text of the category
ReportLabel(category) ==
    IF category = "WORK"
    THEN [title |-> "Work legal advice report", summary |-> "labor standards act"]
    ELSE IF category = "CONSUMER"
    THEN [title |-> "Consumer protection report", summary |-> "consumer dispute rules"]
    ELSE IF category = "NDA"
    THEN [title |-> "IP and career protection report", summary |-> "unfair competition act"]
    ELSE IF category = "GENERAL"
    THEN [title |-> "General legal document report", summary |-> "civil code good faith"]
    ELSE [title |-> "Legal advice report", summary |-> "AI legal advice result"]

\* line 131: the literal the risk level is read from
RiskMarker == JsonString("risk_level") \o <<":", SP>> \o JsonString("HIGH")

\* lines 130-132
RiskLevel(ai_result_json) ==
    IF Contains(ai_result_json, RiskMarker) THEN "HIGH" ELSE "LOW"

\* the three records of a request; the request number stands for the uuids
NewDocument(r) ==
    [kind |-> "Document", id |-> r, parent |-> 0, filename |-> req[r].filename,
     owner_id |-> req[r].user, status |-> "done", title |-> "",
     risk_level |-> "", summary |-> "", suggestion |-> <<>>]
NewClause(r) ==
    [kind |-> "Clause", id |-> r, parent |-> r, filename |-> "",
     owner_id |-> "", status |-> "", title |-> ReportLabel(req[r].category).title,
     risk_level |-> "", summary |-> "", suggestion |-> <<>>]
NewAnalysis(r) ==
    [kind |-> "ClauseAnalysis", id |-> r, parent |-> r, filename |-> "",
     owner_id |-> "", status |-> "", title |-> "",
     risk_level |-> RiskLevel(loc[r].ret),
     summary |-> ReportLabel(req[r].category).summary,
     suggestion |-> loc[r].ret]

\* lines 67-74: the upload is written to its temporary file
SaveTemp(r) ==
    /\ pc[r] = "save"
    /\ \/ /\ tempFiles' = tempFiles \cup {TempPath(r)}
          /\ loc' = [loc EXCEPT ![r].file_path = TempPath(r)]
          /\ pc' = [pc EXCEPT ![r] = "resolve"]
          /\ UNCHANGED <<resp, budget>>
       \/ /\ budget > 0
          /\ budget' = budget - 1
          /\ \E created \in BOOLEAN :
                tempFiles' = IF created THEN tempFiles \cup {TempPath(r)} ELSE tempFiles
          /\ resp' = [resp EXCEPT ![r] = ServerError(req[r].category, ExcDisk)]
          /\ pc' = [pc EXCEPT ![r] = "except"]
          /\ UNCHANGED loc
    /\ UNCHANGED <<ASSISTANT_MAP, ASSISTANT_ID, req, files, threads,
                   session, db, log, engineTexts>>

\* lines 79-90: the Gatekeeper on the string analyze_contract returned
Gatekeeper(r) ==
    /\ pc[r] = "gate"
    /\ LET d == GatekeeperDecision(loc[r].ret)
       IN  IF d.k = "pass"
           THEN /\ pc' = [pc EXCEPT ![r] = "addDocument"]
                /\ UNCHANGED resp
           ELSE IF d.k = "reject"
           THEN /\ resp' = [resp EXCEPT ![r] =
                              [code |-> 400, detail |-> d.detail, risk_count |-> 0]]
                /\ pc' = [pc EXCEPT ![r] = "except"]
           ELSE /\ resp' = [resp EXCEPT ![r] = ServerError(req[r].category, ExcAttribute)]
                /\ pc' = [pc EXCEPT ![r] = "except"]
    /\ UNCHANGED <<ASSISTANT_MAP, ASSISTANT_ID, req, loc, tempFiles, files,
                   threads, session, db, log, engineTexts, budget>>

\* lines 110-117: db.add(new_doc); db.flush()
AddDocument(r) ==
    /\ pc[r] = "addDocument"
    /\ session' = [session EXCEPT ![r] = @ \cup {NewDocument(r)}]
    /\ \/ /\ pc' = [pc EXCEPT ![r] = "addClause"]
          /\ UNCHANGED <<resp, budget>>
       \/ /\ budget > 0
          /\ budget' = budget - 1
          /\ resp' = [resp EXCEPT ![r] = ServerError(req[r].category, ExcDatabase)]
          /\ pc' = [pc EXCEPT ![r] = "except"]
    /\ UNCHANGED <<ASSISTANT_MAP, ASSISTANT_ID, req, loc, tempFiles, files,
                   threads, db, log, engineTexts>>

\* lines 119-127: db.add(new_clause); db.flush()
AddClause(r) ==
    /\ pc[r] = "addClause"
    /\ session' = [session EXCEPT ![r] = @ \cup {NewClause(r)}]
    /\ \/ /\ pc' = [pc EXCEPT ![r] = "commit"]
          /\ UNCHANGED <<resp, budget>>
       \/ /\ budget > 0
          /\ budget' = budget - 1
          /\ resp' = [resp EXCEPT ![r] = ServerError(req[r].category, ExcDatabase)]
          /\ pc' = [pc EXCEPT ![r] = "except"]
    /\ UNCHANGED <<ASSISTANT_MAP, ASSISTANT_ID, req, loc, tempFiles, files,
                   threads, db, log, engineTexts>>

\* lines 129-152: the analysis with its risk level, commit, refresh, response
Commit(r) ==
    /\ pc[r] = "commit"
    /\ \/ /\ db' = db \cup session[r] \cup {NewAnalysis(r)}
          /\ session' = [session EXCEPT ![r] = {}]
          /\ resp' = [resp EXCEPT ![r] =
                        [code |-> 200, detail |-> NoValue,
                         risk_count |-> IF RiskLevel(loc[r].ret) = "HIGH" THEN 1 ELSE 0]]
          /\ pc' = [pc EXCEPT ![r] = "finally"]
          /\ UNCHANGED budget
       \/ \* db.commit() raises
          /\ budget > 0
          /\ budget' = budget - 1
          /\ session' = [session EXCEPT ![r] = @ \cup {NewAnalysis(r)}]
          /\ resp' = [resp EXCEPT ![r] = ServerError(req[r].category, ExcDatabase)]
          /\ pc' = [pc EXCEPT ![r] = "except"]
          /\ UNCHANGED db
       \/ \* db.commit() succeeds, db.refresh(new_doc) raises
          /\ budget > 0
          /\ budget' = budget - 1
          /\ db' = db \cup session[r] \cup {NewAnalysis(r)}
          /\ session' = [session EXCEPT ![r] = {}]
          /\ resp' = [resp EXCEPT ![r] = ServerError(req[r].category, ExcDatabase)]
          /\ pc' = [pc EXCEPT ![r] = "except"]
    /\ UNCHANGED <<ASSISTANT_MAP, ASSISTANT_ID, req, loc, tempFiles, files,
                   threads, log, engineTexts>>

\* lines 154-160: both except clauses roll the session back and re-raise
Rollback(r) ==
    /\ pc[r] = "except"
    /\ session' = [session EXCEPT ![r] = {}]
    /\ pc' = [pc EXCEPT ![r] = "finally"]
    /\ UNCHANGED <<ASSISTANT_MAP, ASSISTANT_ID, req, loc, tempFiles, files,
                   threads, db, resp, log, engineTexts, budget>>

\* lines 162-164: the temporary file is removed if it exists
Finally(r) ==
    /\ pc[r] = "finally"
    /\ tempFiles' = tempFiles \ {TempPath(r)}
    /\ pc' = [pc EXCEPT ![r] = "done"]
    /\ UNCHANGED <<ASSISTANT_MAP, ASSISTANT_ID, req, loc, files, threads,
                   session, db, resp, log, engineTexts, budget>>

(***************************************************************************)
(* Specifications                                                          *)
(***************************************************************************)
Next ==
    \/ \E r \in Req :
          \/ SaveTemp(r)
          \/ Resolve(r)
          \/ Upload(r)
          \/ CreateThread(r)
          \/ RunCreate(r)
          \/ PollReturn(r)
          \/ FetchResult(r)
          \/ Cleanup(r)
          \/ Gatekeeper(r)
          \/ AddDocument(r)
          \/ AddClause(r)
          \/ Commit(r)
          \/ Rollback(r)
          \/ Finally(r)
    \/ \E t \in DOMAIN threads : EngineProgress(t)

Spec == Init /\ [][Next]_vars

\* several calls of analyze_contract at once, each on its own existing file
ConcRequests ==
    { f \in [Req -> DirectRequests] :
        \A r \in Req :
           /\ f[r].category \in {"GENERAL", UnknownCategory}
           /\ f[r].present }

InitConc ==
    InitWith(ConcRequests, { e \in Environments : Truthy(e.map["GENERAL"]) /\ Truthy(e.labor) },
             ConcCorpus, ConcFaults)

\* the steps of the advisor calls and of the engine
NextConc ==
    \/ \E r \in Req :
          \/ Resolve(r)
          \/ Upload(r)
          \/ CreateThread(r)
          \/ RunCreate(r)
          \/ PollReturn(r)
          \/ FetchResult(r)
          \/ Cleanup(r)
    \/ \E t \in DOMAIN threads : EngineProgress(t)

\* two uploads of a file of the same name to the same route at once
TwoUploads ==
    { f \in [Req -> GeneralRequests \cup {NoRequest}] :
        \A r \in Req :
            IF r <= 2 THEN f[r].entry = "general" /\ f[r].category = "GENERAL"
            ELSE f[r] = NoRequest }

InitTemp ==
    InitWith(TwoUploads,
             { e \in Environments : Truthy(e.map["GENERAL"]) /\ Truthy(e.labor) },
             ConcCorpus, ConcFaults)

SpecTemp == InitTemp /\ [][Next]_vars

\* a step of the advisor call of request r
AdvisorStep(r) ==
    \/ Resolve(r)
    \/ Upload(r)
    \/ CreateThread(r)
    \/ RunCreate(r)
    \/ PollReturn(r)
    \/ FetchResult(r)
    \/ Cleanup(r)

\* a call is sequential code: its next statement is executed unless an
\* exception is raised (the steps that leave the budget alone are the ones
\* without an exception); every engine operation responds and every run
\* reaches a terminal status
Fairness ==
    /\ \A r \in Req : WF_vars(AdvisorStep(r) /\ UNCHANGED budget)
    /\ WF_vars(\E t \in DOMAIN threads : EngineProgress(t))

SpecLive == Init /\ [][Next]_vars /\ Fairness

SpecConc == InitConc /\ [][NextConc]_vars

\* the tokens the generated replies are made of: the ones the three
\* post-processing steps and the JSON parser tell apart, and a word
Alphabet == {"{", "}", Q, NL, BT, "json", LBr, RBr, "w"}

\* every text of at most MaxLen tokens
Fragments == UNION { [1..n -> Alphabet] : n \in 0..MaxLen }

\* {"a": "<f>"}: a fragment as the content of a string member
InMember(f) == <<"{", Q, "a", Q, ":", SP, Q>> \o f \o <<Q, "}">>

\* w{<f>}w: a fragment between braces, with prose before and after
InProse(f) == <<"w", "{">> \o f \o <<"}", "w">>

\* raw_text: any fragment, bare, inside a JSON object or inside prose
TextInputs ==
    Fragments \cup { InMember(f) : f \in Fragments } \cup { InProse(f) : f \in Fragments }

\* one call of analyze_contract on an existing file, category GENERAL
TextRequests ==
    { f \in [Req -> DirectRequests \cup {NoRequest}] :
        /\ f[1].entry = "direct" /\ f[1].category = "GENERAL" /\ f[1].present
        /\ \A r \in Req \ {1} : f[r] = NoRequest }

\* the engine answers with one of the generated texts; nothing raises
InitText ==
    \E x \in TextInputs :
        InitWith(TextRequests,
                 { e \in Environments : Truthy(e.map["GENERAL"]) /\ Truthy(e.labor) },
                 {x}, 0)

SpecText == InitText /\ [][NextConc]_vars

(***************************************************************************)
(* app/routers/notifications.py: the two handlers that mark as read        *)
(***************************************************************************)
\* the rows of the notifications table: id -> user_id of the owner
NotificationOwner == <<"u1", "u2", "u1">>
NotificationIds == DOMAIN NotificationOwner
\* a well-formed uuid that names no row
UnknownNotification == Len(NotificationOwner) + 1

Notification(n, b) ==
    [kind |-> "Notification", id |-> n, user_id |-> NotificationOwner[n], is_read |-> b]

\* the authenticated users that send the requests
CurrentUsers == {"u1", "u2"}

\* POST /{notification_id}/read and POST /read-all, each by some user
ReadRequests ==
    [entry : {"read"}, category : {""}, filename : {""}, user : CurrentUsers,
     present : {FALSE}, notification_id : NotificationIds \cup {UnknownNotification}]
ReadAllRequests ==
    [entry : {"read-all"}, category : {""}, filename : {""}, user : CurrentUsers,
     present : {FALSE}, notification_id : {0}]

\* raise HTTPException(status_code=404, detail=...)
NotFound ==
    [code |-> 404,
     detail |-> JStr(<<"notification", SP, "not", SP, "found">>),
     risk_count |-> 0]
\* return {"ok": True}
Ok == [code |-> 200, detail |-> NoValue, risk_count |-> 0]

\* the rows a query that compares the id alone would return
NotificationById(r) ==
    { x \in db : x.kind = "Notification" /\ x.id = req[r].notification_id }

\* lines 113-120: the row with this id AND this owner, if any
OwnNotification(r) ==
    { x \in db :
        /\ x.kind = "Notification"
        /\ x.id = req[r].notification_id
        /\ x.user_id = req[r].user }

\* lines 135-142: the unread rows of the current user
OwnUnread(r) ==
    { x \in db :
        /\ x.kind = "Notification"
        /\ x.user_id = req[r].user
        /\ ~x.is_read }

\* the table after is_read = True has been written to the rows of rows
MarkedRead(rows) == (db \ rows) \cup { [x EXCEPT !.is_read = TRUE] : x \in rows }

\* lines 107-127.  The handler flushes and never commits: whether the
\* write outlives the request is decided by the session dependency get_db,
\* which either commits or discards it.
mark_notification_as_read(r) ==
    /\ pc[r] = "mark"
    /\ req[r].entry = "read"
    /\ IF OwnNotification(r) = {}
       THEN /\ resp' = [resp EXCEPT ![r] = NotFound]
            /\ UNCHANGED db
       ELSE /\ resp' = [resp EXCEPT ![r] = Ok]
            /\ \E committed \in BOOLEAN :
                  db' = IF committed THEN MarkedRead(OwnNotification(r)) ELSE db
    /\ pc' = [pc EXCEPT ![r] = "done"]
    /\ UNCHANGED <<ASSISTANT_MAP, ASSISTANT_ID, req, loc, tempFiles, files,
                   threads, session, log, engineTexts, budget>>

\* lines 130-144, with the same end of the session
mark_all_notifications_as_read(r) ==
    /\ pc[r] = "mark"
    /\ req[r].entry = "read-all"
    /\ resp' = [resp EXCEPT ![r] = Ok]
    /\ \E committed \in BOOLEAN :
          db' = IF committed THEN MarkedRead(OwnUnread(r)) ELSE db
    /\ pc' = [pc EXCEPT ![r] = "done"]
    /\ UNCHANGED <<ASSISTANT_MAP, ASSISTANT_ID, req, loc, tempFiles, files,
                   threads, session, log, engineTexts, budget>>

\* any requests by any users, on a table with any flags; the advisors idle
InitNotif ==
    /\ \E e \in Environments :
          /\ ASSISTANT_MAP = e.map
          /\ ASSISTANT_ID = e.labor
          /\ Truthy(e.labor)
    /\ req \in [Req -> ReadRequests \cup ReadAllRequests]
    /\ pc = [r \in Req |-> "mark"]
    /\ loc = [r \in Req |-> InitLoc]
    /\ tempFiles = {}
    /\ files = {}
    /\ threads = <<>>
    /\ session = [r \in Req |-> {}]
    /\ \E flags \in [NotificationIds -> BOOLEAN] :
          db = { Notification(n, flags[n]) : n \in NotificationIds }
    /\ resp = [r \in Req |-> NoResponse]
    /\ log = [r \in Req |-> <<>>]
    /\ engineTexts = {}
    /\ budget = 0

NextNotif ==
    \E r \in Req :
        \/ mark_notification_as_read(r)
        \/ mark_all_notifications_as_read(r)

SpecNotif == InitNotif /\ [][NextNotif]_vars

(***************************************************************************)
(* Properties                                                              *)
(***************************************************************************)
\* how often request r invoked the engine operation op, and with what result
Invocations(r, op) == { i \in DOMAIN log[r] : log[r][i].op = op }
OpCount(r, op)  == Cardinality(Invocations(r, op))
OpOk(r, op)     == \E i \in Invocations(r, op) : log[r][i].ok
OpFailed(r, op) == \E i \in Invocations(r, op) : ~log[r][i].ok

\* the advisor call of request r has returned
Returned(r) == loc[r].returned

\* the category of r does not resolve: outside the table, or no assistant
\* id configured for it
Unresolved(r) ==
    IF req[r].entry = "labor" THEN ASSISTANT_ID \in {None, ""}
    ELSE \/ req[r].category \notin CategoryKeys
         \/ ASSISTANT_MAP[req[r].category] \in {None, ""}

\* C1 as stated: every call invokes the deletion exactly once, and the
\* uploaded artifact is absent when the call returns.
C1_DeletedExactlyOnceAlways ==
    \A r \in Req :
        Returned(r) => /\ OpCount(r, "deleteFile") = 1
                       /\ NewFileId(r) \notin files

\* C1 amended: the deletion is invoked at most once per call and never
\* before the call is about to return; once the call has returned it was
\* invoked exactly once if the upload returned a handle, on that handle,
\* and not at all otherwise; and the artifact is absent unless that one
\* deletion itself raised.
C1_DeletedOncePerUploadedArtifact ==
    \A r \in Req :
        /\ OpCount(r, "deleteFile") <= 1
        /\ ~Returned(r) => OpCount(r, "deleteFile") = 0
        /\ Returned(r) =>
              /\ OpCount(r, "deleteFile") = (IF OpOk(r, "storeFile") THEN 1 ELSE 0)
              /\ \A i \in Invocations(r, "deleteFile") :
                    \E j \in Invocations(r, "storeFile") :
                        log[r][j].ok /\ log[r][j].h = log[r][i].h
              /\ ~OpFailed(r, "deleteFile") => NewFileId(r) \notin files
              /\ OpFailed(r, "deleteFile") => NewFileId(r) \in files

\* C1 witness: a call whose job creation failed after the upload has
\* returned, with its one deletion done and the artifact gone.
C1_Witness ==
    \E r \in Req :
        /\ Returned(r)
        /\ OpOk(r, "storeFile")
        /\ OpFailed(r, "createJob")
        /\ OpCount(r, "deleteFile") = 1
        /\ NewFileId(r) \notin files

\* C2: a call whose category does not resolve never touches the engine: it
\* invokes no engine operation, and the engine holds no file and no thread
\* of it, at any time up to and after its return.
C2_UnresolvedNoEngineInteraction ==
    \A r \in Req :
        (req[r].entry # "none" /\ Unresolved(r)) =>
            /\ log[r] = <<>>
            /\ NewFileId(r) \notin files
            /\ NewThreadId(r) \notin DOMAIN threads
            /\ pc[r] \notin {"upload", "thread", "run", "poll", "fetch", "cleanup"}

\* C2 witness: a call with a key of the table whose assistant id is the
\* empty string has returned.
C2_Witness ==
    \E r \in Req :
        /\ req[r].entry = "direct"
        /\ req[r].category \in CategoryKeys
        /\ ASSISTANT_MAP[req[r].category] = ""
        /\ Returned(r)

\* what the string the advisor returned says, read with json.loads
IsObject(v) == v.t = "obj"
HasMember(v, key) == IsObject(v) /\ <<key>> \in DOMAIN v.m
Member(v, key) == v.m[<<key>>]

\* the text parses to an object whose summary is an object that has a
\* contract_type_detected member
HasDetectedType(text) ==
    LET p == json_loads(text)
    IN  /\ p.ok
        /\ HasMember(p.v, "summary")
        /\ HasMember(Member(p.v, "summary"), "contract_type_detected")

DetectedType(text) ==
    Member(Member(json_loads(text).v, "summary"), "contract_type_detected")

IsSentinel(v) == v.t = "str" /\ v.s = <<"NOT_A_CONTRACT">>

\* the committed records of request r
RecordsOf(r) == { x \in db : x.id = r }

\* the POST of request r has ended, the advisor having been called
Ended(r) == req[r].entry = "general" /\ pc[r] = "done" /\ Returned(r)

\* the request ended with HTTP 500 because a database call raised
DatabaseFailed(r) == resp[r] = ServerError(req[r].category, ExcDatabase)

\* the request ended normally, its result persisted unchanged
CompletedNormally(r) ==
    /\ resp[r].code = 200
    /\ \E x \in RecordsOf(r) : x.kind = "ClauseAnalysis" /\ x.suggestion = loc[r].ret
    /\ \E x \in RecordsOf(r) : x.kind = "Document" /\ x.status = "done"

\* C3: when the returned text parses with summary.contract_type_detected
\* equal to NOT_A_CONTRACT the request ends with HTTP 400 whose detail is
\* summary.overall_comment, or the default message when that member is
\* absent, and nothing is persisted; with any other detected type the
\* Gatekeeper lets the request through: it ends normally with the result
\* persisted (HTTP 500 only if a database call of the persistence raised).
C3_GatekeeperRejectsSentinelOnly ==
    \A r \in Req :
        (Ended(r) /\ HasDetectedType(loc[r].ret)) =>
            LET summary == Member(json_loads(loc[r].ret).v, "summary")
            IN  IF IsSentinel(DetectedType(loc[r].ret))
                THEN /\ resp[r].code = 400
                     /\ resp[r].detail =
                           (IF HasMember(summary, "overall_comment")
                            THEN Member(summary, "overall_comment")
                            ELSE DefaultRejectMessage)
                     /\ RecordsOf(r) = {}
                ELSE /\ resp[r].code # 400
                     /\ CompletedNormally(r) \/ DatabaseFailed(r)

\* C3 witness: a request rejected with HTTP 400 and the comment X of the
\* engine's reply.
C3_Witness ==
    \E r \in Req :
        /\ Ended(r)
        /\ HasDetectedType(loc[r].ret)
        /\ IsSentinel(DetectedType(loc[r].ret))
        /\ resp[r].code = 400
        /\ resp[r].detail = JStr(<<"X">>)

\* C4 as stated: a request whose category is outside the fixed set ends
\* as a client error, and no record of it is persisted.
C4_UnknownCategoryRejected ==
    \A r \in Req :
        (req[r].entry = "general" /\ pc[r] = "done"
            /\ req[r].category \notin CategoryKeys) =>
                /\ resp[r].code \in 400..499
                /\ RecordsOf(r) = {}

\* C5 as stated: every call creates exactly one thread and one run.
C5_ExactlyOneJobAlways ==
    \A r \in Req :
        Returned(r) =>
            /\ Cardinality({ i \in Invocations(r, "createJob") : log[r][i].ok }) = 1
            /\ Cardinality({ i \in Invocations(r, "run") : log[r][i].ok }) = 1

\* C5 amended: a call invokes thread creation at most once and run
\* creation at most once; the thread only after the upload returned a
\* handle, the run only on the thread it created; once the call has
\* returned, the thread was requested iff the upload succeeded and the run
\* iff the thread was created; and the engine holds a thread (a started
\* run) of the call exactly when that creation succeeded.
C5_AtMostOneJob ==
    \A r \in Req :
        /\ OpCount(r, "createJob") <= 1
        /\ OpCount(r, "run") <= 1
        /\ OpCount(r, "createJob") = 1 => OpOk(r, "storeFile")
        /\ OpCount(r, "run") = 1 => OpOk(r, "createJob")
        /\ Returned(r) =>
              /\ OpOk(r, "storeFile") <=> OpCount(r, "createJob") = 1
              /\ OpOk(r, "createJob") <=> OpCount(r, "run") = 1
        /\ OpOk(r, "createJob") <=> NewThreadId(r) \in DOMAIN threads
        /\ OpOk(r, "run") <=>
              (NewThreadId(r) \in DOMAIN threads /\ threads[NewThreadId(r)].run # "none")

\* C5 witness: a returned call with its one thread and its one run, the
\* run having failed on the engine.
C5_Witness ==
    \E r \in Req :
        /\ Returned(r)
        /\ OpOk(r, "createJob")
        /\ OpOk(r, "run")
        /\ OpCount(r, "createJob") = 1
        /\ OpCount(r, "run") = 1
        /\ loc[r].status = "failed"

\* C6: when the run ends in a terminal status other than completed, the
\* call returns (nothing was raised) a string that parses as a JSON object
\* with an error member and a status member equal to that status.
C6_NonSuccessStatusPayload ==
    \A r \in Req :
        /\ (pc[r] = "cleanup" /\ loc[r].status \in TerminalStatuses \ {"completed"}) =>
              loc[r].exc = <<>>
        /\ (Returned(r) /\ loc[r].status \in TerminalStatuses \ {"completed"}) =>
              LET p == json_loads(loc[r].ret)
              IN  /\ loc[r].exc = <<>>
                  /\ p.ok
                  /\ HasMember(p.v, "error")
                  /\ HasMember(p.v, "status")
                  /\ Member(p.v, "status") = JStr(<<loc[r].status>>)

\* C6 witness: a returned call of analyze_contract whose run expired.
C6_Witness ==
    \E r \in Req :
        /\ Returned(r)
        /\ req[r].entry = "general"
        /\ loc[r].status = "expired"
        /\ Member(json_loads(loc[r].ret).v, "status") = JStr(<<"expired">>)

\* str(e) of the exception a failed engine operation raised
ExceptionOf(op) ==
    IF op = "storeFile" THEN ExcUpload
    ELSE IF op = "createJob" THEN ExcThread
    ELSE IF op = "run" THEN ExcRun
    ELSE IF op = "poll" THEN ExcPoll
    ELSE ExcMessages

\* the operations of the try block that raised for request r
RaisedOps(r) == { i \in DOMAIN log[r] : ~log[r][i].ok /\ log[r][i].op # "deleteFile" }

\* the detail of the exception raised in the try block of r, <<>> if none:
\* a failed engine operation, or the open() of a file that does not exist
RaisedDetail(r) ==
    IF RaisedOps(r) # {}
    THEN ExceptionOf(log[r][CHOOSE i \in RaisedOps(r) : TRUE].op)
    ELSE IF loc[r].exc = ExcNoFile THEN ExcNoFile
    ELSE <<>>

\* C7 as stated: an exception raised in the try block ends the try block
\* (the call goes to its finally clause and returns, no further engine
\* operation other than the deletion), and the returned string parses as a
\* JSON object with an error member and a details member carrying str(e).
C7_ExceptionBecomesPayload ==
    \A r \in Req :
        RaisedDetail(r) # <<>> =>
            /\ pc[r] = "cleanup" \/ Returned(r)
            /\ Cardinality(RaisedOps(r)) <= 1
            /\ LET p == json_loads(loc[r].ret)
               IN  /\ p.ok
                   /\ HasMember(p.v, "error")
                   /\ HasMember(p.v, "details")
                   /\ Member(p.v, "details") = JStr(RaisedDetail(r))

\* C8: the finally clause never changes the outcome: the call returns the
\* string chosen before the deletion, to the caller, whether the deletion
\* succeeded or raised.
C8_DeletionNeverChangesOutcome ==
    [][\A r \in Req :
          (pc[r] = "cleanup" /\ pc'[r] # "cleanup") =>
              /\ loc'[r].ret = loc[r].ret
              /\ loc'[r].exc = loc[r].exc
              /\ pc'[r] = AfterReturn(r)
              /\ resp'[r] = resp[r]]_vars

\* C8 witness: a call on the success path has returned its sanitized text
\* although its deletion raised.
C8_Witness ==
    \E r \in Req :
        /\ Returned(r)
        /\ OpFailed(r, "deleteFile")
        /\ loc[r].status = "completed"
        /\ OpOk(r, "fetch")
        /\ loc[r].ret = TextHighSpaced

\* C9 as stated: a WORK request whose run completed with the reply
\* {"risk_level":"HIGH","clauses":[]} returns that string unchanged and is
\* stored with risk level HIGH, risk_count 1.
C9_CompactHighIsHigh ==
    \A r \in Req :
        (/\ Ended(r)
         /\ req[r].category = "WORK"
         /\ resp[r].code = 200
         /\ OpOk(r, "fetch")
         /\ Head(threads[NewThreadId(r)].messages) = TextHighCompact) =>
            /\ loc[r].ret = TextHighCompact
            /\ resp[r].risk_count = 1
            /\ \E x \in RecordsOf(r) :
                  x.kind = "ClauseAnalysis" /\ x.risk_level = "HIGH"

\* the handles the engine gave request r: of its stored file, of its thread
OwnFile(r)   == log[r][CHOOSE j \in Invocations(r, "storeFile") : log[r][j].ok].h
OwnThread(r) == log[r][CHOOSE j \in Invocations(r, "createJob") : log[r][j].ok].h

\* what a call with the inputs of r returns when it runs alone and the
\* engine answers its operations as it answered those of r: the assistant
\* lookup, then the first operation that raised, then the terminal status
\* and the reply of its own run
AloneResult(r) ==
    IF Unresolved(r)
    THEN (IF IsLabor(r) THEN ErrLaborNoAssistant ELSE ErrNoAssistant(req[r].category))
    ELSE IF RaisedDetail(r) # <<>>
    THEN (IF IsLabor(r) THEN ErrLaborException(RaisedDetail(r))
          ELSE ErrException(RaisedDetail(r)))
    ELSE LET job == threads[OwnThread(r)]
         IN  IF job.run = "completed"
             THEN (IF IsLabor(r) THEN sanitize_labor(Head(job.messages))
                   ELSE sanitize(Head(job.messages)))
             ELSE (IF IsLabor(r) THEN ErrLaborRunFailed(job.run)
                   ELSE ErrRunFailed(job.run))

\* C10: in every interleaving of the calls, a call deletes only the file
\* it stored itself and no other call deletes that file, it attaches its
\* own file to its own thread, it runs, polls and reads only its own
\* thread, and it returns what it would return running alone against the
\* same engine answers.
C10_CallsAreIndependent ==
    \A r \in Req :
        /\ \A i \in Invocations(r, "deleteFile") :
              OpOk(r, "storeFile") /\ log[r][i].h = OwnFile(r)
        /\ (OpOk(r, "storeFile") /\ ~OpOk(r, "deleteFile")) => OwnFile(r) \in files
        /\ OpOk(r, "createJob") => threads[OwnThread(r)].attachment = OwnFile(r)
        /\ \A i \in DOMAIN log[r] :
              log[r][i].op \in {"run", "poll", "fetch"} => log[r][i].h = OwnThread(r)
        /\ \A q \in Req \ {r} :
              (OpOk(r, "storeFile") /\ OpOk(q, "storeFile")) => OwnFile(r) # OwnFile(q)
        /\ Returned(r) => loc[r].ret = AloneResult(r)

\* C10 witness: two calls in flight at once, both past reading the reply of
\* their completed runs, each holding a different text, both files still
\* on the engine.
C10_Witness ==
    \E r \in Req : \E q \in Req \ {r} :
        /\ pc[r] = "cleanup" /\ pc[q] = "cleanup"
        /\ OpOk(r, "fetch") /\ OpOk(q, "fetch")
        /\ loc[r].ret # loc[q].ret
        /\ {OwnFile(r), OwnFile(q)} \subseteq files

\* the reply the engine gave to the completed run of request r
Reply(r) == Head(threads[OwnThread(r)].messages)

\* a clean JSON object text: it parses as an object, starts with its
\* opening brace and ends with its closing brace, and holds no citation
\* bracket
CleanJsonObject(x) ==
    /\ Len(x) > 0
    /\ x[1] = "{" /\ x[Len(x)] = "}"
    /\ json_loads(x).ok /\ IsObject(json_loads(x).v)
    /\ \A i \in 1..Len(x) : x[i] \notin {LBr, RBr}

\* C11: when the reply is a clean JSON object text x, the call returns
\* sanitize(x) = x, and sanitizing what it returned once more changes
\* nothing.
C11_SanitizeKeepsCleanJson ==
    \A r \in Req :
        (OpOk(r, "fetch") /\ ~IsLabor(r) /\ CleanJsonObject(Reply(r))) =>
            /\ loc[r].ret = Reply(r)
            /\ sanitize(loc[r].ret) = loc[r].ret
            /\ sanitize(sanitize(Reply(r))) = sanitize(Reply(r))

\* C11 witness: a clean object whose string holds the fence marker and a
\* closing brace was returned as it came.
C11_Witness ==
    \E r \in Req :
        /\ Returned(r)
        /\ OpOk(r, "fetch")
        /\ CleanJsonObject(Reply(r))
        /\ \E i \in 1..Len(Reply(r)) : Reply(r)[i] = BT
        /\ \E i \in 2..(Len(Reply(r)) - 1) : Reply(r)[i] = "}"
        /\ loc[r].ret = Reply(r)

\* the place of an engine operation in the sequence of one call
OpRank(op) ==
    IF op = "storeFile" THEN 1
    ELSE IF op = "createJob" THEN 2
    ELSE IF op = "run" THEN 3
    ELSE IF op = "poll" THEN 4
    ELSE IF op = "fetch" THEN 5
    ELSE 6

\* C12: the engine operations of one call are logged in the order
\* storeFile, createJob, run, poll, fetch, deleteFile, each at most once;
\* an operation of the try block follows only operations that succeeded
\* (no job without a handle from the upload, no run without the thread);
\* the reply is fetched only after the poll returned the status completed
\* and the run of the thread is completed; nothing follows deleteFile, the
\* call has not returned before it, and a returned call that holds a
\* handle has deleteFile as its last operation.
C12_EngineOperationsInOrder ==
    \A r \in Req :
        /\ \A i, j \in DOMAIN log[r] :
              i < j => /\ OpRank(log[r][i].op) < OpRank(log[r][j].op)
                       /\ log[r][j].op # "deleteFile" => log[r][i].ok
        /\ OpCount(r, "createJob") > 0 => OpOk(r, "storeFile")
        /\ OpCount(r, "run") > 0 => OpOk(r, "createJob")
        /\ OpCount(r, "poll") > 0 => OpOk(r, "run")
        /\ OpCount(r, "fetch") > 0 =>
              /\ OpOk(r, "poll")
              /\ loc[r].status = "completed"
              /\ threads[OwnThread(r)].run = "completed"
        /\ OpCount(r, "deleteFile") > 0 => OpOk(r, "storeFile")
        /\ (OpCount(r, "deleteFile") = 0 /\ OpOk(r, "storeFile")) => ~Returned(r)
        /\ (Returned(r) /\ OpOk(r, "storeFile")) =>
              log[r][Len(log[r])].op = "deleteFile"

\* C12 witness: a returned call that went through all six operations.
C12_Witness ==
    \E r \in Req :
        /\ Returned(r)
        /\ [i \in DOMAIN log[r] |-> log[r][i].op] =
              <<"storeFile", "createJob", "run", "poll", "fetch", "deleteFile">>

\* the upload step of request r failed: open() raised, or the engine's
\* file creation did
UploadFailed(r) == OpFailed(r, "storeFile") \/ loc[r].exc = ExcNoFile

\* str(e) of that failure
UploadFailureDetail(r) == IF OpFailed(r, "storeFile") THEN ExcUpload ELSE ExcNoFile

C14_CallsReturnAfterTerminalStatus ==
    /\ \A r \in Req : (pc[r] = "resolve") ~> Returned(r)
    /\ [](\A r \in Req :
            /\ (Returned(r) /\ OpOk(r, "storeFile")) => OpCount(r, "deleteFile") = 1
            /\ (OpOk(r, "poll") \/ pc[r] = "fetch"
                  \/ (Returned(r) /\ OpOk(r, "run") /\ RaisedDetail(r) = <<>>)) =>
                  /\ threads[OwnThread(r)].run \in TerminalStatuses
                  /\ loc[r].status = threads[OwnThread(r)].run)

\* C14 witness: a call has returned after its run was cancelled, the
\* deletion done.
C14_Witness ==
    \E r \in Req :
        /\ Returned(r)
        /\ OpOk(r, "poll")
        /\ loc[r].status = "cancelled"
        /\ threads[OwnThread(r)].run = "cancelled"
        /\ OpCount(r, "deleteFile") = 1

\* the text is a JSON object whose summary.contract_type_detected is the
\* sentinel
SentinelText(text) == HasDetectedType(text) /\ IsSentinel(DetectedType(text))

\* C15 as stated: whatever the advisor returned, unless it is a JSON object
\* with the sentinel as its detected type, the request goes on to
\* persistence and ends normally (a failing database call aside).
C15_GatekeeperPermissive ==
    \A r \in Req :
        (Ended(r) /\ ~SentinelText(loc[r].ret)) =>
            CompletedNormally(r) \/ DatabaseFailed(r)

\* the reply of request r after the fence and the citation substitutions
AfterSteps12(r) == StripCitations(StripFence(Reply(r)))

\* the positions of the opening and of the closing braces of a text
Opens(t)  == { i \in 1..Len(t) : t[i] = "{" }
Closes(t) == { i \in 1..Len(t) : t[i] = "}" }

\* C16: once the reply is fetched (the fetch never raises in sanitize),
\* with t the text after steps 1-2: if t holds an opening brace with a
\* closing brace somewhere after it, across newlines or not, the call
\* returns t from its first opening brace to its last closing brace
\* inclusive; otherwise it returns t unchanged.
C16_BraceSpanExtraction ==
    \A r \in Req :
        (OpOk(r, "fetch") /\ ~IsLabor(r)) =>
            LET t == AfterSteps12(r)
            IN  /\ loc[r].exc = <<>>
                /\ IF \E i \in Opens(t) : \E j \in Closes(t) : i < j
                   THEN LET a == CHOOSE i \in Opens(t) : \A k \in Opens(t) : i <= k
                            b == CHOOSE j \in Closes(t) : \A k \in Closes(t) : k <= j
                        IN  loc[r].ret = [k \in 1..(b - a + 1) |-> t[a + k - 1]]
                   ELSE loc[r].ret = t

\* C16 witness: a reply with prose around a brace span that holds a
\* newline and a closing brace was cut down to that span.
C16_Witness ==
    \E r \in Req :
        /\ Returned(r)
        /\ OpOk(r, "fetch")
        /\ Len(loc[r].ret) > 3
        /\ Len(loc[r].ret) + 2 = Len(AfterSteps12(r))
        /\ loc[r].ret[1] = "{"
        /\ loc[r].ret[2] = NL
        /\ loc[r].ret[3] = "}"

\* the advisor call of r returned one of its error payloads: the category
\* did not resolve, the run ended in a non-success status, or an exception
\* was caught
ReturnedErrorPayload(r) ==
    /\ Returned(r)
    /\ \/ Unresolved(r)
       \/ loc[r].status \in TerminalStatuses \ {"completed"}
       \/ loc[r].exc # <<>>

\* C17: a request whose advisor call returned an error payload is never
\* rejected by the Gatekeeper, and unless a database call raises it ends
\* with HTTP 200, risk_count 0 and exactly three committed records: a
\* Document with status done, a Clause, and a ClauseAnalysis whose
\* suggestion is the payload unchanged.
C17_ErrorPayloadPersistedAsSuccess ==
    \A r \in Req :
        (req[r].entry = "general" /\ ReturnedErrorPayload(r)) =>
            /\ resp[r].code # 400
            /\ pc[r] = "done" =>
                  \/ DatabaseFailed(r)
                  \/ /\ resp[r].code = 200
                     /\ resp[r].risk_count = 0
                     /\ RecordsOf(r) = {NewDocument(r), NewClause(r), NewAnalysis(r)}
                     /\ NewDocument(r).status = "done"
                     /\ NewAnalysis(r).suggestion = loc[r].ret

\* C17 witness: the payload of a caught exception, which does not even
\* parse, is stored as the analysis of a successful request.
C17_Witness ==
    \E r \in Req :
        /\ Ended(r)
        /\ loc[r].exc = ExcRun
        /\ ~json_loads(loc[r].ret).ok
        /\ resp[r].code = 200
        /\ \E x \in RecordsOf(r) :
              x.kind = "ClauseAnalysis" /\ x.suggestion = ErrException(ExcRun)

\* the three records of request r are committed
AllCommitted(r) == RecordsOf(r) = {NewDocument(r), NewClause(r), NewAnalysis(r)}

\* C18 as stated: a finished request has either returned normally with its
\* three records committed, or ended in a rejection or an exception with
\* none of them committed; a rejected request never added a record; and
\* the database never holds a Document without its Clause and its
\* ClauseAnalysis.
C18_PersistenceAllOrNothing ==
    \A r \in Req :
        /\ (req[r].entry = "general" /\ pc[r] = "done") =>
              \/ resp[r].code = 200 /\ AllCommitted(r)
              \/ resp[r].code # 200 /\ RecordsOf(r) = {}
        /\ resp[r].code = 400 => (session[r] = {} /\ RecordsOf(r) = {})
        /\ RecordsOf(r) # {} => AllCommitted(r)

\* request r is inside its call of analyze_contract: the temporary file
\* is saved and the call has not returned
InAdvisorCall(r) ==
    /\ req[r].entry = "general"
    /\ pc[r] \in {"resolve", "upload", "thread", "run", "poll", "fetch", "cleanup"}

\* C19: a finished request has left no temporary file, whether it returned
\* normally, was rejected by the Gatekeeper or ended in an exception; and
\* while analyze_contract runs the file it was handed exists, so that the
\* open() of the upload step never fails for a request of the handler.
C19_TempFileRemovedAfterCall ==
    \A r \in Req :
        /\ (req[r].entry = "general" /\ pc[r] = "done") => TempPath(r) \notin tempFiles
        /\ InAdvisorCall(r) =>
              /\ loc[r].file_path = TempPath(r)
              /\ TempPath(r) \in tempFiles
        /\ req[r].entry = "general" => loc[r].exc # ExcNoFile
        /\ (req[r].entry = "general" /\ Returned(r) /\ pc[r] \notin {"done"}) =>
              TempPath(r) \in tempFiles

\* C19 witness: a request rejected by the Gatekeeper has ended, its file
\* gone after an upload that read it, while another request is still
\* inside its advisor call with its own file in place.
C19_Witness ==
    \E r \in Req : \E q \in Req \ {r} :
        /\ Ended(r)
        /\ resp[r].code = 400
        /\ OpOk(r, "storeFile")
        /\ TempPath(r) \notin tempFiles
        /\ InAdvisorCall(q)
        /\ TempPath(q) \in tempFiles

\* the notification rows of a table
NotificationsIn(d) == { x \in d : x.kind = "Notification" }

\* request r is handled in this step
Handled(r) == pc[r] = "mark" /\ pc'[r] = "done"

\* the request of r names a row that exists and belongs to its user
NamesOwnNotification(r) ==
    /\ req[r].notification_id \in NotificationIds
    /\ NotificationOwner[req[r].notification_id] = req[r].user

\* C20: whatever mark-read and mark-all-read requests the users send, no
\* step creates, deletes or re-owns a notification; an is_read flag changes
\* only from FALSE to TRUE, and only in a step that handles a request of the
\* notification's owner which names that notification or is a read-all and
\* is answered with 200; a mark-read request that names a notification of
\* another user, or none, is answered with 404 and leaves every
\* notification as it was, and one that names a notification of its own
\* user is answered with 200.
C20_ReadFlagOnlyByOwner ==
    [][ /\ \A y \in NotificationsIn(db') :
              \E x \in NotificationsIn(db) : x.id = y.id
        /\ \A x \in NotificationsIn(db) :
              \E y \in NotificationsIn(db') :
                  /\ y.id = x.id
                  /\ y.user_id = x.user_id
                  /\ y.is_read # x.is_read =>
                        /\ ~x.is_read
                        /\ y.is_read
                        /\ \E r \in Req :
                              /\ Handled(r)
                              /\ req[r].user = x.user_id
                              /\ req[r].entry = "read" => req[r].notification_id = x.id
                              /\ resp'[r] = Ok
        /\ \A r \in Req :
              (Handled(r) /\ req[r].entry = "read") =>
                  IF NamesOwnNotification(r)
                  THEN resp'[r] = Ok
                  ELSE resp'[r] = NotFound /\ db' = db
      ]_vars

\* C20 witness: a user asked to mark a notification of another user that
\* was unread, got 404, and the notification is still unread; the
\* owner of a different notification marked it and it is read; and a
\* request naming no notification got 404 as well or is yet to be handled.
C20_Witness ==
    \E r \in Req : \E q \in Req \ {r} :
        /\ req[r].entry = "read"
        /\ req[r].notification_id \in NotificationIds
        /\ NotificationOwner[req[r].notification_id] # req[r].user
        /\ resp[r] = NotFound
        /\ Notification(req[r].notification_id, FALSE) \in db
        /\ req[q].entry = "read"
        /\ NamesOwnNotification(q)
        /\ req[q].notification_id # req[r].notification_id
        /\ resp[q] = Ok
        /\ Notification(req[q].notification_id, TRUE) \in db

====
